---- MODULE Spec2Model ----
(***************************************************************************)
(* Model of the persistence layer of the referee earnings tracker,         *)
(* app/data_manager.py (class GameDataManager).                            *)
(*                                                                         *)
(* The store keeps game records either in a relational table `games`       *)
(* (self.conn is a connection) or in per-season JSON files (self.conn is   *)
(* None).  The model covers the embedded sqlite3 connection kind, for      *)
(* which every `with self.conn:` block is one transaction that commits on  *)
(* success and rolls back on an exception.                                 *)
(*                                                                         *)
(* Text values are sequences of one-character strings, so that lower(),    *)
(* substring tests, str.replace and SQL LIKE are computed character by     *)
(* character.  Money amounts are whole numbers.  A record's optional       *)
(* fields `observations` and `paymentDate` behave alike everywhere in the  *)
(* code (they are carried by the dict and by the JSON files, the table has *)
(* no column for them); the model carries `observations` for both.         *)
(***************************************************************************)
EXTENDS Integers, Sequences, FiniteSets, TLC

VARIABLES
    alive,      \* a GameDataManager object exists (the process is running)
    conn,       \* self.conn is not None
    db_error,   \* self.db_error: "unset" (attribute never assigned), "None", or a message
    db,         \* rows of table games, in rowid order
    hasUnique,  \* the table carries UNIQUE(season, gameNumber)
    files,      \* the games_<season>.json files of the data directory
    all_games,  \* content of all_games.json
    markers,    \* content of imported_seasons.json (a set of season keys)
    lastOp,     \* the call that completed last, with its arguments and whether it raised
    ret,        \* what that call returned
    nops        \* number of constructions and mutating calls so far

vars == <<alive, conn, db_error, db, hasUnique, files, all_games, markers, lastOp, ret, nops>>

\* the state kept outside the object: the table and the data directory
store == <<db, files, all_games, markers>>

-----------------------------------------------------------------------------
(* Bounds *)

\* constructions and mutating calls in one behaviour
MaxOps == 3

-----------------------------------------------------------------------------
(* Text *)

\* SQL NULL / Python None in a text position
NULLT == <<"NULL">>
\* the dict has no such key
ABSENTT == <<"ABSENT">>

\* str.lower() on the characters the model uses (also the ASCII case folding of LIKE)
LowerChar(c) ==
    CASE c = "A" -> "a"
      [] c = "B" -> "b"
      [] c = "Y" -> "y"
      [] c = "E" -> "e"
      [] c = "S" -> "s"
      [] c = "N" -> "n"
      [] c = "O" -> "o"
      [] OTHER -> c

lower(t) == [i \in 1..Len(t) |-> LowerChar(t[i])]

\* Python's `q in t` for strings
Contains(q, t) ==
    \E i \in 0..(Len(t) - Len(q)) : SubSeq(t, i + 1, i + Len(q)) = q

\* str.replace(a, b) for single characters
replace(t, a, b) == [i \in 1..Len(t) |-> IF t[i] = a THEN b ELSE t[i]]

\* SQL `text LIKE pattern`: % matches any run of characters, _ any one
\* character, every other character matches itself ignoring ASCII case
RECURSIVE like(_, _)
like(t, p) ==
    IF p = <<>> THEN t = <<>>
    ELSE IF Head(p) = "%" THEN like(t, Tail(p)) \/ (t # <<>> /\ like(Tail(t), p))
    ELSE IF t = <<>> THEN FALSE
    ELSE IF Head(p) = "_" THEN like(Tail(t), Tail(p))
    ELSE LowerChar(Head(p)) = LowerChar(Head(t)) /\ like(Tail(t), Tail(p))

\* `column LIKE pattern` is not true for a NULL column
sql_like(col, p) == col # NULLT /\ like(col, p)

-----------------------------------------------------------------------------
(* Money values *)

Num(n)   == [k |-> "num", v |-> n]
NullV    == [k |-> "null", v |-> 0]      \* None / NULL
TextV    == [k |-> "text", v |-> 0]      \* a non-empty, non-numeric string such as "abc"
AbsentV  == [k |-> "absent", v |-> 0]    \* the dict has no such key

\* game.get(field, 0)
get0(m) == IF m.k = "absent" THEN Num(0) ELSE m
\* game.get(field)
getT(t) == IF t = ABSENTT THEN NULLT ELSE t

-----------------------------------------------------------------------------
(* Inputs: season keys, record dicts, query strings *)

S1 == <<"2", "5", "/", "2", "6">>
S2 == <<"2", "4", "/", "2", "5">>
Seasons == {S1, S2}

Yes    == <<"Y", "e", "s">>
YES    == <<"Y", "E", "S">>
No     == <<"N", "o">>

\* a record dict as the caller builds it
Game(gn, date, loc, t, f, p, paid, obs, season) ==
    [gameNumber |-> gn, date |-> date, location |-> loc,
     transportation |-> t, food |-> f, gamePayment |-> p,
     paidStatus |-> paid, observations |-> obs, season |-> season]

\* game 1 of a season, unpaid: 10 + 5 + 50 = 65
G1  == Game(<<"1">>, <<"0", "9", "-", "0", "1">>, <<"A", "b">>,
            Num(10), Num(5), Num(50), No, <<"x">>, S1)
\* the same game once paid
G1p == Game(<<"1">>, <<"0", "9", "-", "0", "1">>, <<"A", "b">>,
            Num(10), Num(5), Num(50), Yes, <<"x">>, S1)
\* game 2, paid, with a None and a missing amount
G3  == Game(<<"2">>, <<"1", "0", "-", "0", "2">>, <<"B", "c">>,
            NullV, AbsentV, Num(20), YES, ABSENTT, S2)
\* game 2, unpaid, with a non-numeric amount
G2  == Game(<<"2">>, <<"1", "0", "-", "0", "2">>, <<"B", "c">>,
            TextV, Num(5), Num(20), No, ABSENTT, S2)

Games == {G1, G1p, G2, G3}
GameNumbers == {g.gameNumber : g \in Games}

\* the record lists handed to save_games
SaveLists == {<<>>, <<G1>>, <<G1, G3>>, <<G1, G1p>>}

\* the strings handed to search_games
Queries == {<<"a">>, <<"_">>}

-----------------------------------------------------------------------------
(* Sequences *)

RECURSIVE Concat(_)
Concat(ss) == IF ss = <<>> THEN <<>> ELSE Head(ss) \o Concat(Tail(ss))

RECURSIVE SumSeq(_)
SumSeq(s) == IF s = <<>> THEN 0 ELSE Head(s) + SumSeq(Tail(s))

\* the permutations of a finite set, as sequences
Perms(S) ==
    {p \in [1..Cardinality(S) -> S] : \A i, j \in 1..Cardinality(S) : p[i] = p[j] => i = j}

-----------------------------------------------------------------------------
(* The data directory *)

\* the season part of the file name games_<...>.json
get_season_file(season) == replace(season, "/", "-")
\* the season key import_json_to_db derives from a file name
season_of_file(fname) == replace(fname, "-", "/")

FileNames == {get_season_file(s) : s \in Seasons}

NoFile == [exists |-> FALSE, games |-> <<>>]
File(games) == [exists |-> TRUE, games |-> games]

\* os.listdir restricted to the season files: the existing ones, in the
\* order `ord` (a permutation of FileNames) the file system yields them
listdir(fs, ord) == SelectSeq(ord, LAMBDA f : fs[f].exists)

-----------------------------------------------------------------------------
(* The table *)

Key(row) == <<row.season, row.gameNumber>>

\* the row an INSERT of (season, game) writes
InsertRow(season, g) ==
    [season |-> season, gameNumber |-> getT(g.gameNumber), date |-> getT(g.date),
     location |-> getT(g.location),
     transportation |-> get0(g.transportation), food |-> get0(g.food),
     gamePayment |-> get0(g.gamePayment), paidStatus |-> getT(g.paidStatus)]

_row_to_game(row) ==
    [gameNumber |-> row.gameNumber, date |-> row.date, location |-> row.location,
     transportation |-> row.transportation, food |-> row.food,
     gamePayment |-> row.gamePayment, paidStatus |-> row.paidStatus,
     observations |-> ABSENTT, season |-> row.season]

\* [self._row_to_game(r) for r in rows]
rows_to_games(rows) == [i \in 1..Len(rows) |-> _row_to_game(rows[i])]

\* SELECT * FROM games WHERE season = ?
_db_load_games(d, season) ==
    rows_to_games(SelectSeq(d, LAMBDA r : r.season = season))

\* a variant of the DELETE whose WHERE clause names the gameNumber only
DeleteKey_any_season(d, season, gn) == SelectSeq(d, LAMBDA r : r.gameNumber # gn)

\* DELETE FROM games WHERE season = ? AND gameNumber = ?
DeleteKey(d, season, gn) ==
    SelectSeq(d, LAMBDA r : ~(r.season = season /\ r.gameNumber = gn))

\* DELETE FROM games WHERE season = ?
DeleteSeason(d, season) == SelectSeq(d, LAMBDA r : r.season # season)

HasKey(d, season, gn) == \E i \in 1..Len(d) : d[i].season = season /\ d[i].gameNumber = gn

\* an INSERT is rejected by UNIQUE(season, gameNumber)
Rejects(d, uniq, row) == uniq /\ HasKey(d, row.season, row.gameNumber)

-----------------------------------------------------------------------------
(* Export and backup files.  A disk state is a record [db, files, all_games]. *)

Disk(d, fs, ag) == [db |-> d, files |-> fs, all_games |-> ag]

\* the list _dump_all writes to all_games.json: every row of the table when a
\* connection is present, else the season files concatenated in listdir order
_dump_all(cn, d, fs, ord) ==
    IF cn THEN rows_to_games(d)
    ELSE Concat([i \in 1..Len(listdir(fs, ord)) |-> fs[listdir(fs, ord)[i]].games])

\* a variant of _dump_json that returns before it writes anything
_dump_json_returns(st, season, fail) == st

\* _dump_json(season): the season's rows written to its JSON file, then
\* _dump_all; when reading the rows back raises (fail), it returns at once
_dump_json(st, season, fail) ==
    IF fail THEN st ELSE
    LET fs == [st.files EXCEPT ![get_season_file(season)] = File(_db_load_games(st.db, season))]
    IN  Disk(st.db, fs, _dump_all(TRUE, st.db, fs, <<>>))

-----------------------------------------------------------------------------
(* load_games *)

\* what load_games returns: nothing without a connection or on a read error
load_games(cn, d, season, fail) ==
    IF ~cn THEN <<>>
    ELSE IF fail THEN <<>>
    ELSE _db_load_games(d, season)

\* self.db_error after load_games
load_games_error(cn, fail) ==
    IF ~cn THEN "no database connection" ELSE IF fail THEN "exc" ELSE "None"

-----------------------------------------------------------------------------
(* save_games.  Each mutating call yields [st, raised]. *)

Outcome(st, raised) == [st |-> st, raised |-> raised]

\* the INSERT loop of _db_save_games; ok is FALSE when a statement raised
RECURSIVE InsertAll(_, _, _, _)
InsertAll(d, uniq, season, games) ==
    IF games = <<>> THEN [db |-> d, ok |-> TRUE]
    ELSE IF Rejects(d, uniq, InsertRow(season, Head(games))) THEN [db |-> d, ok |-> FALSE]
    ELSE InsertAll(Append(d, InsertRow(season, Head(games))), uniq, season, Tail(games))

\* a variant of _db_save_games whose statements commit one by one: a failure
\* leaves the season deleted and the records before the failing one inserted
_db_save_games_autocommit(st, uniq, season, games, fault) ==
    LET r == InsertAll(DeleteSeason(st.db, season), uniq, season, games)
    IN  IF fault THEN Outcome(Disk(DeleteSeason(st.db, season), st.files, st.all_games), TRUE)
        ELSE Outcome(Disk(r.db, st.files, st.all_games), ~r.ok)

\* _db_save_games: DELETE of the season and the INSERTs in one transaction,
\* rolled back when a statement raises (a rejected INSERT, or a fault)
_db_save_games(st, uniq, season, games, fault) ==
    LET r == InsertAll(DeleteSeason(st.db, season), uniq, season, games)
    IN  IF fault \/ ~r.ok THEN Outcome(st, TRUE)
        ELSE Outcome(Disk(r.db, st.files, st.all_games), FALSE)

\* save_games without a connection: the season file is overwritten, then _dump_all
save_games_json(st, season, games, ord) ==
    LET fs == [st.files EXCEPT ![get_season_file(season)] = File(games)]
    IN  Outcome(Disk(st.db, fs, _dump_all(FALSE, st.db, fs, ord)), FALSE)

save_games(cn, st, uniq, season, games, fault, ord) ==
    IF cn THEN _db_save_games(st, uniq, season, games, fault)
    ELSE save_games_json(st, season, games, ord)

-----------------------------------------------------------------------------
(* add_game *)

\* with a connection: DELETE of the key (an exception is swallowed), INSERT
\* (an exception propagates), then _dump_json (fault "dump": its SELECT raises)
add_game_db(st, uniq, season, game, fault) ==
    LET d1  == IF fault = "del" THEN st.db
               ELSE DeleteKey(st.db, season, getT(game.gameNumber))
        row == InsertRow(season, game)
    IN  IF fault = "ins" \/ Rejects(d1, uniq, row)
        THEN Outcome(Disk(d1, st.files, st.all_games), TRUE)
        ELSE Outcome(_dump_json(Disk(Append(d1, row), st.files, st.all_games), season,
                                fault = "dump"), FALSE)

\* without a connection: load_games, append, save_games
add_game_json(st, season, game, ord) ==
    save_games_json(st, season, Append(load_games(FALSE, st.db, season, FALSE), game), ord)

add_game(cn, st, uniq, season, game, fault, ord) ==
    IF cn THEN add_game_db(st, uniq, season, game, fault)
    ELSE add_game_json(st, season, game, ord)

-----------------------------------------------------------------------------
(* update_game *)

\* UPDATE games SET date, location, transportation, food, gamePayment,
\* paidStatus WHERE season = ? AND gameNumber = ?
UpdateRows(d, season, gn, g) ==
    [i \in 1..Len(d) |->
        IF d[i].season = season /\ d[i].gameNumber = gn
        THEN [d[i] EXCEPT !.date = getT(g.date), !.location = getT(g.location),
                          !.transportation = get0(g.transportation),
                          !.food = get0(g.food),
                          !.gamePayment = get0(g.gamePayment),
                          !.paidStatus = getT(g.paidStatus)]
        ELSE d[i]]

\* fault "db": the UPDATE raises; fault "dump": the SELECT of _dump_json raises
update_game_db(st, season, gn, g, fault) ==
    IF fault = "db" THEN Outcome(st, TRUE)
    ELSE Outcome(_dump_json(Disk(UpdateRows(st.db, season, gn, g), st.files, st.all_games),
                            season, fault = "dump"), FALSE)

\* the loop of the JSON branch: the first entry with that gameNumber is
\* replaced by the supplied dict
ReplaceFirst(games, gn, g) ==
    [i \in 1..Len(games) |->
        IF games[i].gameNumber = gn /\ \A j \in 1..(i - 1) : games[j].gameNumber # gn
        THEN g ELSE games[i]]

update_game_json(st, season, gn, g, ord) ==
    save_games_json(st, season,
                    ReplaceFirst(load_games(FALSE, st.db, season, FALSE), gn, g), ord)

update_game(cn, st, season, gn, g, fault, ord) ==
    IF cn THEN update_game_db(st, season, gn, g, fault)
    ELSE update_game_json(st, season, gn, g, ord)

-----------------------------------------------------------------------------
(* delete_game *)

\* fault "db": the DELETE raises; fault "dump": the SELECT of _dump_json raises
delete_game_db(st, season, gn, fault) ==
    IF fault = "db" THEN Outcome(st, TRUE)
    ELSE Outcome(_dump_json(Disk(DeleteKey(st.db, season, gn), st.files, st.all_games),
                            season, fault = "dump"), FALSE)

delete_game_json(st, season, gn, ord) ==
    save_games_json(st, season,
                    SelectSeq(load_games(FALSE, st.db, season, FALSE),
                              LAMBDA g : g.gameNumber # gn), ord)

delete_game(cn, st, season, gn, fault, ord) ==
    IF cn THEN delete_game_db(st, season, gn, fault)
    ELSE delete_game_json(st, season, gn, ord)

-----------------------------------------------------------------------------
(* search_games *)

\* with a connection: season = ? AND (gameNumber LIKE ? OR location LIKE ?
\* OR date LIKE ?), each parameter being "%" + query + "%"
search_games_db(d, season, q) ==
    LET pat == <<"%">> \o q \o <<"%">>
    IN  rows_to_games(
            SelectSeq(d, LAMBDA r : /\ r.season = season
                                    /\ \/ sql_like(r.gameNumber, pat)
                                       \/ sql_like(r.location, pat)
                                       \/ sql_like(r.date, pat)))

\* without a connection: the records load_games returns, filtered in Python
search_games_json(d, season, q) ==
    SelectSeq(load_games(FALSE, d, season, FALSE),
              LAMBDA g : \/ Contains(lower(q), lower(g.gameNumber))
                         \/ Contains(lower(q), lower(g.location))
                         \/ Contains(lower(q), lower(g.date)))

search_games(cn, d, season, q) ==
    IF cn THEN search_games_db(d, season, q) ELSE search_games_json(d, season, q)

-----------------------------------------------------------------------------
(* get_summary *)

Summary(paid, left, n) == [total_earnings |-> paid, amount_left |-> left, games_count |-> n]

\* float(x or 0) raises ValueError for a non-numeric string
FloatRaises(m) == m.k = "text"
\* float(x or 0) otherwise: None counts as 0
FloatOr0(m) == IF m.k = "num" THEN m.v ELSE 0

RowRaises(r) == FloatRaises(r.transportation) \/ FloatRaises(r.food) \/ FloatRaises(r.gamePayment)
RowTotal(r) == FloatOr0(r.transportation) + FloatOr0(r.food) + FloatOr0(r.gamePayment)

\* (paid or "").lower() == 'yes'
IsPaid(r) == lower(IF r.paidStatus = NULLT THEN <<>> ELSE r.paidStatus) = <<"y", "e", "s">>

\* the try block of get_summary fails: a database fault, or float() raising
summary_fails(d, season, fault) ==
    fault \/ \E i \in 1..Len(d) : d[i].season = season /\ RowRaises(d[i])

get_summary(cn, d, season, fault) ==
    LET rows == SelectSeq(d, LAMBDA r : r.season = season)
    IN  IF ~cn \/ summary_fails(d, season, fault) THEN Summary(0, 0, 0)
        ELSE Summary(SumSeq([i \in 1..Len(rows) |-> IF IsPaid(rows[i]) THEN RowTotal(rows[i]) ELSE 0]),
                     SumSeq([i \in 1..Len(rows) |-> IF IsPaid(rows[i]) THEN 0 ELSE RowTotal(rows[i])]),
                     Len(rows))

\* self.db_error after get_summary
get_summary_error(cn, d, season, fault) ==
    IF ~cn THEN "no database connection"
    ELSE IF summary_fails(d, season, fault) THEN "exc" ELSE "None"

-----------------------------------------------------------------------------
(* Construction: schema, migration and deduplication *)

\* a variant of _ensure_schema that keeps the connection after a failure
_ensure_schema_keeps(fail) ==
    [conn |-> TRUE, db_error |-> IF fail THEN "exc" ELSE "unset"]

\* _ensure_schema: CREATE TABLE IF NOT EXISTS.  When it raises, the message is
\* stored in self.db_error, the connection is closed and self.conn set to
\* None.  Yields [conn, db_error]
_ensure_schema(fail) ==
    [conn |-> ~fail, db_error |-> IF fail THEN "exc" ELSE "unset"]

\* neither db_path nor db_conn is given: self.conn stays None
NoDatabase == [conn |-> FALSE, db_error |-> "unset"]

\* for g in games: self.add_game(season, g)
RECURSIVE import_games(_, _, _, _)
import_games(st, uniq, season, games) ==
    IF games = <<>> THEN st
    ELSE import_games(add_game_db(st, uniq, season, Head(games), "ok").st,
                      uniq, season, Tail(games))

\* SELECT COUNT(*) FROM games WHERE season = ?
CountSeason(d, season) == Len(SelectSeq(d, LAMBDA r : r.season = season))

\* a variant of the loop body that inserts the file's records as they are:
\* no look at the markers, no clearing of the season, no upsert
import_season_plain(st, mk, uniq, fname, countFail) ==
    [st |-> Disk(InsertAll(st.db, uniq, season_of_file(fname), st.files[fname].games).db,
                 st.files, st.all_games),
     markers |-> mk \cup {season_of_file(fname)}]

\* a variant of the loop body that imports every season file it meets,
\* whatever the markers and the table say
import_season_always(st, mk, uniq, fname, countFail) ==
    [st |-> import_games(Disk(DeleteSeason(st.db, season_of_file(fname)), st.files, st.all_games),
                         uniq, season_of_file(fname), st.files[fname].games),
     markers |-> mk \cup {season_of_file(fname)}]

\* one iteration of the loop over the season files; yields [st, markers].
\* A marked season is skipped when the COUNT query answers more than zero;
\* when that query raises (countFail) the season is imported again
import_season(st, mk, uniq, fname, countFail) ==
    LET season == season_of_file(fname)
    IN  IF season \in mk /\ ~countFail /\ CountSeason(st.db, season) > 0
        THEN [st |-> st, markers |-> mk]
        ELSE [st |-> import_games(Disk(DeleteSeason(st.db, season), st.files, st.all_games),
                                  uniq, season, st.files[fname].games),
              markers |-> mk \cup {season}]

RECURSIVE import_files(_, _, _, _, _)
import_files(st, mk, uniq, fnames, countFail) ==
    IF fnames = <<>> THEN [st |-> st, markers |-> mk]
    ELSE LET r == import_season(st, mk, uniq, Head(fnames), countFail)
         IN  import_files(r.st, r.markers, uniq, Tail(fnames), countFail)

\* import_json_to_db: every season file in listdir order, then _dump_all
import_json_to_db(st, mk, uniq, ord, countFail) ==
    LET r == import_files(st, mk, uniq, listdir(st.files, ord), countFail)
    IN  [st |-> Disk(r.st.db, r.st.files, _dump_all(TRUE, r.st.db, r.st.files, ord)),
         markers |-> r.markers]

\* a variant of the scan that keeps, for every key, the row met last
RECURSIVE KeepLast(_)
KeepLast(d) ==
    IF d = <<>> THEN <<>>
    ELSE IF \E j \in 2..Len(d) : Key(d[j]) = Key(Head(d)) THEN KeepLast(Tail(d))
    ELSE <<Head(d)>> \o KeepLast(Tail(d))

_dedupe_db_keeps_last(d) == KeepLast(d)

\* the scan of _dedupe_db: a row whose key was seen before is deleted
RECURSIVE KeepFirst(_, _)
KeepFirst(d, seen) ==
    IF d = <<>> THEN <<>>
    ELSE IF Key(Head(d)) \in seen THEN KeepFirst(Tail(d), seen)
    ELSE <<Head(d)>> \o KeepFirst(Tail(d), seen \cup {Key(Head(d))})

_dedupe_db(d) == KeepFirst(d, {})

-----------------------------------------------------------------------------
(* Initial states: what is on disk before the program starts *)

NoFiles == [f \in FileNames |-> NoFile]

\* an empty data directory and a database with no table yet
DiskEmpty ==
    [db |-> <<>>, files |-> NoFiles, all_games |-> <<>>, markers |-> {}, hasUnique |-> TRUE]

\* two season files left by JSON-only runs, and a database with no table yet
DiskJson ==
    [db |-> <<>>,
     files |-> [f \in FileNames |->
                   IF f = get_season_file(S1) THEN File(<<G1, G3>>) ELSE File(<<G1p>>)],
     all_games |-> <<G1, G3, G1p>>, markers |-> {}, hasUnique |-> TRUE]

\* a table created without the uniqueness constraint, holding a duplicate key
DiskLegacy ==
    [db |-> <<InsertRow(S1, G1), InsertRow(S1, G1p), InsertRow(S2, G3)>>,
     files |-> NoFiles, all_games |-> <<>>, markers |-> {}, hasUnique |-> FALSE]

InitDisks == {DiskEmpty, DiskJson, DiskLegacy}

\* a completed call: its arguments, the database fault it met ("ok": none;
\* "db": its statement failed; for add_game "del" or "ins": that statement
\* failed; "dump": the read of _dump_json failed; for a construction one of
\* ConstructFaults) and whether it raised
Call(op, season, gn, games, q, fault, raised) ==
    [op |-> op, season |-> season, gn |-> gn, games |-> games, q |-> q,
     fault |-> fault, raised |-> raised]

Fault(b) == IF b THEN "db" ELSE "ok"

Ret(games, summary) == [games |-> games, summary |-> summary]
NoRet == Ret(<<>>, Summary(0, 0, 0))

Init ==
    /\ alive = FALSE
    /\ conn = FALSE
    /\ db_error = "unset"
    /\ \E d \in InitDisks :
          /\ db = d.db
          /\ files = d.files
          /\ all_games = d.all_games
          /\ markers = d.markers
          /\ hasUnique = d.hasUnique
    /\ lastOp = Call("none", <<>>, <<>>, <<>>, <<>>, "ok", FALSE)
    /\ ret = NoRet
    /\ nops = 0

-----------------------------------------------------------------------------
(* Actions *)

\* the database failures a construction can meet: CREATE TABLE raises
\* ("schema"), the COUNT queries of the migration raise ("count"), the SELECT
\* of _dedupe_db raises ("scan"), the SELECT of the closing _dump_all raises
\* ("export")
ConstructFaults == {"ok", "schema", "count", "scan", "export"}

\* GameDataManager(...): kind "json" passes no database, kind "db" a path or a
\* connection.  The SELECT of _dedupe_db is outside any try block: when it
\* raises, __init__ raises and no object comes to exist; what the migration
\* wrote before stays on disk.
Construct(kind, fault, ord) ==
    /\ ~alive
    /\ nops < MaxOps
    /\ fault # "ok" => kind = "db"
    /\ LET sch    == IF kind = "db" THEN _ensure_schema(fault = "schema") ELSE NoDatabase
           cn     == sch.conn
           st0    == Disk(db, files, all_games)
           imp    == IF cn THEN import_json_to_db(st0, markers, hasUnique, ord, fault = "count")
                     ELSE [st |-> st0, markers |-> markers]
           raised == cn /\ fault = "scan"
           d2     == IF cn /\ ~raised THEN _dedupe_db(imp.st.db) ELSE imp.st.db
       IN  /\ alive' = ~raised
           /\ conn' = (cn /\ ~raised)
           /\ db_error' = IF raised THEN "unset" ELSE sch.db_error
           /\ db' = d2
           /\ files' = imp.st.files
           /\ all_games' = IF raised THEN imp.st.all_games
                           ELSE IF fault = "export" THEN <<>>
                           ELSE _dump_all(cn, d2, imp.st.files, ord)
           /\ markers' = imp.markers
           /\ lastOp' = Call("construct", <<>>, <<>>, <<>>, <<>>, fault, raised)
    /\ ret' = NoRet
    /\ nops' = nops + 1
    /\ UNCHANGED hasUnique

\* the process ends; the table and the data directory stay
Close ==
    /\ alive
    /\ alive' = FALSE
    /\ conn' = FALSE
    /\ db_error' = "unset"
    /\ lastOp' = Call("close", <<>>, <<>>, <<>>, <<>>, "ok", FALSE)
    /\ ret' = NoRet
    /\ UNCHANGED <<db, hasUnique, files, all_games, markers, nops>>

\* the disk part of a mutating call's outcome
Apply(out) ==
    /\ db' = out.st.db
    /\ files' = out.st.files
    /\ all_games' = out.st.all_games
    /\ UNCHANGED <<alive, conn, hasUnique, markers>>
    /\ ret' = NoRet
    /\ nops' = nops + 1

LoadGames(season, fault) ==
    /\ alive
    /\ fault => conn
    /\ ret' = Ret(load_games(conn, db, season, fault), Summary(0, 0, 0))
    /\ db_error' = load_games_error(conn, fault)
    /\ lastOp' = Call("load", season, <<>>, <<>>, <<>>, Fault(fault), FALSE)
    /\ UNCHANGED <<alive, conn, db, hasUnique, files, all_games, markers, nops>>

SaveGames(season, games, fault, ord) ==
    /\ alive
    /\ nops < MaxOps
    /\ fault => conn
    /\ LET out == save_games(conn, Disk(db, files, all_games), hasUnique, season, games, fault, ord)
       IN  /\ Apply(out)
           /\ lastOp' = Call("save", season, <<>>, games, <<>>, Fault(fault), out.raised)
    /\ UNCHANGED db_error

AddGame(season, game, fault, ord) ==
    /\ alive
    /\ nops < MaxOps
    /\ fault # "ok" => conn
    /\ LET out == add_game(conn, Disk(db, files, all_games), hasUnique, season, game, fault, ord)
       IN  /\ Apply(out)
           /\ lastOp' = Call("add", season, game.gameNumber, <<game>>, <<>>, fault, out.raised)
    /\ db_error' = IF conn THEN db_error ELSE load_games_error(conn, FALSE)

UpdateGame(season, gn, game, fault, ord) ==
    /\ alive
    /\ nops < MaxOps
    /\ fault # "ok" => conn
    /\ LET out == update_game(conn, Disk(db, files, all_games), season, gn, game, fault, ord)
       IN  /\ Apply(out)
           /\ lastOp' = Call("update", season, gn, <<game>>, <<>>, fault, out.raised)
    /\ db_error' = IF conn THEN db_error ELSE load_games_error(conn, FALSE)

DeleteGame(season, gn, fault, ord) ==
    /\ alive
    /\ nops < MaxOps
    /\ fault # "ok" => conn
    /\ LET out == delete_game(conn, Disk(db, files, all_games), season, gn, fault, ord)
       IN  /\ Apply(out)
           /\ lastOp' = Call("delete", season, gn, <<>>, <<>>, fault, out.raised)
    /\ db_error' = IF conn THEN db_error ELSE load_games_error(conn, FALSE)

\* with a connection the query is not guarded: a fault propagates
SearchGames(season, q, fault) ==
    /\ alive
    /\ fault => conn
    /\ ret' = Ret(IF fault THEN <<>> ELSE search_games(conn, db, season, q), Summary(0, 0, 0))
    /\ db_error' = IF conn THEN db_error ELSE load_games_error(conn, FALSE)
    /\ lastOp' = Call("search", season, <<>>, <<>>, q, Fault(fault), fault)
    /\ UNCHANGED <<alive, conn, db, hasUnique, files, all_games, markers, nops>>

GetSummary(season, fault) ==
    /\ alive
    /\ fault => conn
    /\ ret' = Ret(<<>>, get_summary(conn, db, season, fault))
    /\ db_error' = get_summary_error(conn, db, season, fault)
    /\ lastOp' = Call("summary", season, <<>>, <<>>, <<>>, Fault(fault), FALSE)
    /\ UNCHANGED <<alive, conn, db, hasUnique, files, all_games, markers, nops>>

\* the database failures add_game can meet: its DELETE raises ("del"), its
\* INSERT raises ("ins"), the SELECT of its _dump_json raises ("dump")
AddFaults == {"ok", "del", "ins", "dump"}
\* those of update_game and delete_game: the statement raises ("db"), the
\* SELECT of _dump_json raises ("dump")
WriteFaults == {"ok", "db", "dump"}

\* the listdir orders a call can meet; a call with a connection reads no directory
Orders == Perms(FileNames)
OrdersOf(cn) == IF cn THEN {<<>>} ELSE Orders

Next ==
    \/ \E kind \in {"json", "db"}, fault \in ConstructFaults, ord \in Orders :
          Construct(kind, fault, ord)
    \/ Close
    \/ \E season \in Seasons, fault \in BOOLEAN : LoadGames(season, fault)
    \/ \E season \in Seasons, games \in SaveLists, fault \in BOOLEAN, ord \in OrdersOf(conn) :
          SaveGames(season, games, fault, ord)
    \/ \E season \in Seasons, game \in Games, fault \in AddFaults, ord \in OrdersOf(conn) :
          AddGame(season, game, fault, ord)
    \/ \E season \in Seasons, gn \in GameNumbers, game \in Games, fault \in WriteFaults, ord \in OrdersOf(conn) :
          UpdateGame(season, gn, game, fault, ord)
    \/ \E season \in Seasons, gn \in GameNumbers, fault \in WriteFaults, ord \in OrdersOf(conn) :
          DeleteGame(season, gn, fault, ord)
    \/ \E season \in Seasons, q \in Queries, fault \in BOOLEAN : SearchGames(season, q, fault)
    \/ \E season \in Seasons, fault \in BOOLEAN : GetSummary(season, fault)

Spec == Init /\ [][Next]_vars

-----------------------------------------------------------------------------
(* Season keys and file names.  The season key is free text (the form lets  *)
(* the user type one), so this specification draws it from every string of  *)
(* up to MaxKeyLen characters over a digit, the slash and the dash.  A      *)
(* JSON-only store has written records under the key lastOp.season; the     *)
(* migration meets the file named get_season_file of that key (kept in      *)
(* lastOp.q), derives a season key from the name and marks it.              *)

KeyChars == {"2", "/", "-"}

\* length of the longest season key drawn
MaxKeyLen == 4

SeasonKeys == UNION {[1..n -> KeyChars] : n \in 1..MaxKeyLen}

InitKeys ==
    /\ alive = FALSE
    /\ conn = FALSE
    /\ db_error = "unset"
    /\ db = <<>>
    /\ hasUnique = TRUE
    /\ files = NoFiles
    /\ all_games = <<>>
    /\ markers = {}
    /\ \E s \in SeasonKeys : lastOp = Call("written", s, <<>>, <<>>, get_season_file(s), "ok", FALSE)
    /\ ret = NoRet
    /\ nops = 0

\* season = fname[len('games_'):-5].replace('-', '/'); markers.add(season)
MigrateKey ==
    /\ lastOp.op = "written"
    /\ markers' = markers \cup {season_of_file(lastOp.q)}
    /\ lastOp' = [lastOp EXCEPT !.op = "migrated"]
    /\ UNCHANGED <<alive, conn, db_error, db, hasUnique, files, all_games, ret, nops>>

NextKeys == MigrateKey

SpecKeys == InitKeys /\ [][NextKeys]_vars

-----------------------------------------------------------------------------
(* Vocabulary of the properties *)

\* the elements of s as a bag: element -> number of occurrences
BagOf(s) ==
    [x \in {s[i] : i \in 1..Len(s)} |-> Cardinality({i \in 1..Len(s) : s[i] = x})]

\* the records the active backend holds for a season: the season's rows with
\* a connection, the content of the season file without one
Stored(cn, d, fs, season) ==
    IF cn THEN _db_load_games(d, season) ELSE fs[get_season_file(season)].games

\* the identity and the eight stored columns of a record of a season
Columns(season, g) == InsertRow(season, g)

ColumnsOf(season, games) == [i \in 1..Len(games) |-> Columns(season, games[i])]

DistinctNumbers(games) ==
    \A i, j \in 1..Len(games) : games[i].gameNumber = games[j].gameNumber => i = j

Holds(games, gn) == \E i \in 1..Len(games) : games[i].gameNumber = gn

MutatingOps == {"save", "add", "update", "delete"}

-----------------------------------------------------------------------------
(* Properties *)

\* C1: after any sequence of construct/save/add/update/delete calls, with a
\* database or with JSON files only, the active backend holds no two records
\* with the same (season, gameNumber), and an add or save that meets no
\* database fault does not raise.
C1_UniqueKeys ==
    (alive /\ lastOp.op \in MutatingOps \cup {"construct"}) =>
        /\ \A s \in Seasons : DistinctNumbers(Stored(conn, db, files, s))
        /\ (lastOp.op \in {"add", "save"} /\ lastOp.fault = "ok") => ~lastOp.raised

\* C2: add(season, record) is an upsert.  After an add that did not raise,
\* load(season) holds exactly one record with the added gameNumber, its
\* columns are those of the added record, and every record of the season with
\* another gameNumber that was stored before the call is still stored,
\* unchanged.
C2_AddIsUpsert ==
    [][(lastOp'.op = "add" /\ ~lastOp'.raised) =>
        LET s      == lastOp'.season
            g      == lastOp'.games[1]
            loaded == load_games(conn', db', s, FALSE)
            before == Stored(conn, db, files, s)
            after  == Stored(conn', db', files', s)
        IN  /\ Cardinality({i \in 1..Len(loaded) : loaded[i].gameNumber = g.gameNumber}) = 1
            /\ \A i \in 1..Len(loaded) :
                  loaded[i].gameNumber = g.gameNumber => Columns(s, loaded[i]) = Columns(s, g)
            /\ \A i \in 1..Len(before) :
                  before[i].gameNumber # g.gameNumber =>
                      \E j \in 1..Len(after) : after[j] = before[i]
      ]_vars

\* C3: save followed by load is a round trip with either backend.  After
\* save(season, R) with distinct gameNumbers did not raise, load(season)
\* returns exactly the records of R.
C3_SaveLoadRoundTrip ==
    (lastOp.op = "save" /\ ~lastOp.raised /\ DistinctNumbers(lastOp.games)) =>
        BagOf(ColumnsOf(lastOp.season, load_games(conn, db, lastOp.season, FALSE)))
            = BagOf(ColumnsOf(lastOp.season, lastOp.games))


\* what a record is worth: transportation + food + gamePayment, a missing or
\* non-numeric amount counting as zero
Amount(m) == IF m.k = "num" THEN m.v ELSE 0
Worth(g) == Amount(g.transportation) + Amount(g.food) + Amount(g.gamePayment)
AllNumeric(g) ==
    g.transportation.k = "num" /\ g.food.k = "num" /\ g.gamePayment.k = "num"

\* paidStatus equals "yes" ignoring case
PaidYes(g) == g.paidStatus # NULLT /\ lower(g.paidStatus) = <<"y", "e", "s">>

\* the summary of a list of records: paid worth, unpaid worth, count
Partition(games) ==
    Summary(SumSeq([i \in 1..Len(games) |-> IF PaidYes(games[i]) THEN Worth(games[i]) ELSE 0]),
            SumSeq([i \in 1..Len(games) |-> IF PaidYes(games[i]) THEN 0 ELSE Worth(games[i])]),
            Len(games))

\* only the file of this season exists
OnlyFileOf(season) ==
    \A f \in FileNames : files[f].exists <=> f = get_season_file(season)

\* C4: with JSON files only and an empty data directory, after add(season, r)
\* of one unpaid record worth T, summarize(season) returns {0, T, 1}; after a
\* following update(season, r.gameNumber, r') that sets paidStatus to "Yes",
\* summarize(season) returns {T, 0, 1}.
C4_JsonScenario ==
    [][/\ (/\ ~conn /\ files = NoFiles
           /\ lastOp'.op = "add" /\ ~lastOp'.raised
           /\ AllNumeric(lastOp'.games[1]) /\ ~PaidYes(lastOp'.games[1]))
          => get_summary(conn', db', lastOp'.season, FALSE)
                = Summary(0, Worth(lastOp'.games[1]), 1)
       /\ (/\ ~conn /\ OnlyFileOf(lastOp.season)
           /\ lastOp.op = "add" /\ ~lastOp.raised
           /\ files[get_season_file(lastOp.season)].games = lastOp.games
           /\ AllNumeric(lastOp.games[1]) /\ ~PaidYes(lastOp.games[1])
           /\ lastOp'.op = "update" /\ ~lastOp'.raised
           /\ lastOp'.season = lastOp.season /\ lastOp'.gn = lastOp.gn
           /\ lastOp'.games[1].paidStatus = Yes
           /\ Worth(lastOp'.games[1]) = Worth(lastOp.games[1]))
          => get_summary(conn', db', lastOp'.season, FALSE)
                = Summary(Worth(lastOp.games[1]), 0, 1)
      ]_vars

\* the records of every season are the same after the step as before it
RecordsUnchanged ==
    \A s \in Seasons : Stored(conn', db', files', s) = Stored(conn, db, files, s)

\* C5: delete(season, gameNumber) for a key that is not stored is a no-op: it
\* raises nothing and leaves every record of every season as it was.
C5_DeleteAbsentIsNoOp ==
    [][(/\ lastOp'.op = "delete" /\ lastOp'.fault = "ok"
        /\ ~Holds(Stored(conn, db, files, lastOp'.season), lastOp'.gn))
       => (~lastOp'.raised /\ RecordsUnchanged)
      ]_vars

\* the gameNumbers stored for a season, with multiplicity
KeysOf(cn, d, fs, season) ==
    BagOf([i \in 1..Len(Stored(cn, d, fs, season)) |-> Stored(cn, d, fs, season)[i].gameNumber])

\* C6: update(season, gameNumber, record) on a stored key changes only that
\* one record: the record stays under (season, gameNumber), also when the
\* supplied record carries another gameNumber or season, the keys of the
\* store are the same as before, and every other record is unchanged.
C6_UpdateKeepsIdentity ==
    [][(/\ lastOp'.op = "update" /\ lastOp'.fault = "ok"
        /\ Holds(Stored(conn, db, files, lastOp'.season), lastOp'.gn))
       => /\ Holds(Stored(conn', db', files', lastOp'.season), lastOp'.gn)
          /\ \A s \in Seasons : KeysOf(conn', db', files', s) = KeysOf(conn, db, files, s)
          /\ \A s \in Seasons :
                LET before == Stored(conn, db, files, s)
                    after  == Stored(conn', db', files', s)
                IN  \A i \in 1..Len(before) :
                       (s # lastOp'.season \/ before[i].gameNumber # lastOp'.gn) =>
                           \E j \in 1..Len(after) : after[j] = before[i]
      ]_vars

\* C7: update(season, gameNumber, record) for a key that matches no stored
\* record changes no record and raises nothing.
C7_UpdateAbsentIsNoOp ==
    [][(/\ lastOp'.op = "update" /\ lastOp'.fault = "ok"
        /\ ~Holds(Stored(conn, db, files, lastOp'.season), lastOp'.gn))
       => (~lastOp'.raised /\ RecordsUnchanged)
      ]_vars

\* C8: summarize(season) partitions the records load(season) returns:
\* total_earnings is the worth of the records paid "yes" in any case,
\* amount_left the worth of all others, their sum the worth of all records,
\* and games_count the number of records.
C8_SummaryPartitionsLoad ==
    (lastOp.op = "summary" /\ lastOp.fault = "ok") =>
        LET loaded == load_games(conn, db, lastOp.season, FALSE)
        IN  /\ ret.summary = Partition(loaded)
            /\ ret.summary.total_earnings + ret.summary.amount_left
                  = SumSeq([i \in 1..Len(loaded) |-> Worth(loaded[i])])

\* C9: in summarize(season), a record with a missing or non-numeric amount
\* contributes zero for that amount; its other amounts and the other records
\* of the season are still summed and counted.
C9_BadAmountCountsZero ==
    (/\ lastOp.op = "summary" /\ lastOp.fault = "ok" /\ conn
     /\ \E i \in 1..Len(db) : db[i].season = lastOp.season /\ ~AllNumeric(db[i]))
    => LET rows == SelectSeq(db, LAMBDA r : r.season = lastOp.season)
       IN  /\ ret.summary.games_count = Len(rows)
           /\ ret.summary.total_earnings + ret.summary.amount_left
                 = SumSeq([i \in 1..Len(rows) |-> Worth(rows[i])])

\* the record contains q, ignoring case, in gameNumber, location or date
Matches(g, q) ==
    \/ Contains(lower(q), lower(g.gameNumber))
    \/ Contains(lower(q), lower(g.location))
    \/ Contains(lower(q), lower(g.date))

\* C10: search(season, q) returns exactly the records of load(season) whose
\* gameNumber, location or date contains q ignoring case.
C10_SearchIsSubstringFilter ==
    (lastOp.op = "search" /\ lastOp.fault = "ok") =>
        BagOf(ret.games)
            = BagOf(SelectSeq(load_games(conn, db, lastOp.season, FALSE),
                              LAMBDA g : Matches(g, lastOp.q)))

\* the rows of a season, in table order
SeasonRows(d, season) == SelectSeq(d, LAMBDA r : r.season = season)

\* C11: migration is idempotent.  In the state a construction with a database
\* leaves, a second migration (its COUNT queries answering or failing as
\* those of the first did), in any directory order, alone or followed by the
\* deduplication of a second construction, leaves the rows of every season as
\* the first left them: same rows, same count, no duplicate.
C11_MigrationIdempotent ==
    (alive /\ conn /\ lastOp.op = "construct") =>
        \A ord \in Orders :
            LET again == import_json_to_db(Disk(db, files, all_games), markers,
                                           hasUnique, ord, lastOp.fault = "count")
            IN  \A s \in Seasons :
                   /\ SeasonRows(again.st.db, s) = SeasonRows(db, s)
                   /\ SeasonRows(_dedupe_db(again.st.db), s) = SeasonRows(db, s)

\* a construction with a database has migrated both season files
C11_Witness ==
    /\ alive /\ conn /\ lastOp.op = "construct"
    /\ markers = Seasons
    /\ \A s \in Seasons : files[get_season_file(s)].exists /\ CountSeason(db, s) > 0

\* the rows an INSERT of each record of a list writes
RowsOf(season, games) == [i \in 1..Len(games) |-> InsertRow(season, games[i])]

\* C12: a construction with a database that meets no fault, on an empty table
\* and a data directory holding season files, leaves for every such file the
\* season's rows equal, as a collection, to the records the file held, and
\* the season in imported_seasons.json.
C12_FreshMigration ==
    [][(/\ lastOp'.op = "construct" /\ lastOp'.fault = "ok" /\ conn'
        /\ db = <<>>)
       => \A s \in Seasons :
             files[get_season_file(s)].exists =>
                 /\ BagOf(SeasonRows(db', s))
                       = BagOf(RowsOf(s, files[get_season_file(s)].games))
                 /\ s \in markers'
      ]_vars

\* C13: in a construction with a database, a season that is in
\* imported_seasons.json and has at least one row is not imported again:
\* its rows after the construction are the rows it had, less the duplicates
\* the deduplication removes.
C13_MarkedSeasonUntouched ==
    [][(lastOp'.op = "construct" /\ conn')
       => \A s \in markers :
             CountSeason(db, s) > 0 =>
                 SeasonRows(db', s) = SeasonRows(_dedupe_db(db), s)
      ]_vars

\* every record of every season file, in the order of FileNames given by ord
AllFileRecords(fs, ord) == Concat([i \in 1..Len(ord) |-> fs[ord[i]].games])

\* C14: after every save, add, update or delete that returned normally,
\* all_games.json holds exactly the records of the active backend: every row
\* of the table with a database, the records of all season files without.
C14_ExportIsCurrent ==
    (alive /\ lastOp.op \in MutatingOps /\ ~lastOp.raised) =>
        IF conn THEN BagOf(all_games) = BagOf(rows_to_games(db))
        ELSE \A ord \in Orders : BagOf(all_games) = BagOf(AllFileRecords(files, ord))

\* the calls that use the database
DatabaseOps == {"load", "save", "add", "update", "delete", "search", "summary"}

\* self.db_error is None, or the attribute was never assigned
NoDiagnostic == db_error \in {"None", "unset"}

\* the last call met no database fault, did not raise, and (a summary) did
\* not fail on a stored amount
CallSucceeded ==
    /\ lastOp.fault = "ok" /\ ~lastOp.raised
    /\ lastOp.op = "summary" => ~summary_fails(db, lastOp.season, FALSE)

\* the query or write statement of the last call failed
StatementFailed == lastOp.fault \in {"db", "del", "ins"}

\* C15: with a database, self.db_error is null after a database call that
\* succeeded, whatever an earlier call left there, and is a message after a
\* database call whose statement failed.
C15_DiagnosticFollowsLastCall ==
    (alive /\ conn /\ lastOp.op \in DatabaseOps) =>
        /\ CallSucceeded => NoDiagnostic
        /\ StatementFailed => ~NoDiagnostic

\* C16: a construction whose CREATE TABLE fails completes with the message in
\* self.db_error and without a connection, and a store without a connection
\* never gets one: whatever is called on it, self.conn stays None for as long
\* as the object lives.
C16_SchemaFailureIsFinal ==
    [][/\ (lastOp'.op = "construct" /\ lastOp'.fault = "schema")
             => (alive' /\ ~conn' /\ db_error' = "exc" /\ ~lastOp'.raised)
       /\ (alive /\ ~conn /\ alive') => ~conn'
      ]_vars

\* a store whose table creation failed has served a mutating call since
C16_Witness ==
    /\ alive /\ ~conn /\ db_error = "exc"
    /\ lastOp.op = "save"

\* the result of the last call is empty: no records, a summary of zeros
EmptyResult == ret = Ret(<<>>, Summary(0, 0, 0))

\* C17: a load, search or summarize whose database query fails does not
\* raise: it returns an empty result and leaves a message in self.db_error.
C17_ReadFailureIsCaught ==
    (alive /\ lastOp.op \in {"load", "search", "summary"} /\ lastOp.fault = "db") =>
        /\ ~lastOp.raised
        /\ EmptyResult
        /\ ~NoDiagnostic

\* C18: with a database, an add, update or delete one of whose write
\* statements fails raises; this includes the DELETE add_game issues before
\* its INSERT.
C18_WriteFailureIsRaised ==
    (alive /\ conn /\ lastOp.op \in {"add", "update", "delete"} /\ StatementFailed) =>
        lastOp.raised

\* C19: a construction never raises: whichever of its database statements
\* fails, it completes and leaves a store, with or without a connection.
C19_ConstructNeverRaises ==
    lastOp.op = "construct" => (~lastOp.raised /\ alive)

Migrated(ord) ==
    import_json_to_db(Disk(db, files, all_games), markers, hasUnique, ord,
                      lastOp'.fault = "count").st.db

\* row i of d is the first row of d with its key
IsFirstOfKey(d, i) == \A j \in 1..(i - 1) : Key(d[j]) # Key(d[i])

C23_MigrationKeepsFiles ==
    [][(lastOp'.op = "construct" /\ lastOp'.fault = "ok" /\ conn') => files' = files]_vars

C26_KeyRoundTrip ==
    lastOp.op = "migrated" =>
        /\ markers = {lastOp.season}
        /\ \A t \in SeasonKeys : get_season_file(t) = lastOp.q => t = lastOp.season

\* the table after a construction with a database, free of faults, over the
\* disk state the step leaves
Reconstructed(ord) ==
    _dedupe_db(import_json_to_db(Disk(db', files', all_games'), markers',
                                 hasUnique', ord, FALSE).st.db)

\* C27: a record removed from the database by a delete, or by a save whose
\* list omits it, is not brought back by a later construction with the same
\* database and data directory: the table that construction leaves does not
\* hold the removed key.
C27_RemovedStaysRemoved ==
    [][(lastOp'.op \in {"save", "delete"} /\ conn /\ lastOp'.fault = "ok" /\ ~lastOp'.raised) =>
          \A gn \in GameNumbers :
              (HasKey(db, lastOp'.season, gn) /\ ~HasKey(db', lastOp'.season, gn)) =>
                  \A ord \in Orders : ~HasKey(Reconstructed(ord), lastOp'.season, gn)]_vars

\* C28: with a database, an add that ends in an error leaves the table as it
\* was: the record stored under the key before the call is still there.
C28_FailedAddKeepsStore ==
    [][(lastOp'.op = "add" /\ conn /\ lastOp'.raised) => db' = db]_vars

====
